---- MODULE Spec2Model ----
(***************************************************************************)
(* Model of bitlight-ssi-man: the SsiStore trait with its two backends     *)
(* (SsiMemoryStore over a HashMap, SsiSqliteStore over the ssi_secrets     *)
(* table), the SsiMan manager and the C ABI of ffi.rs.                     *)
(***************************************************************************)
EXTENDS Integers, Sequences, FiniteSets, TLC

\* ---------------------------------------------------------------- bounds
MaxId == 2          \* identifiers are 1..MaxId
MaxKey == 2         \* key pairs SsiSecret::new can generate are 1..MaxKey
MaxCalls == 2       \* C ABI calls that hand memory to the caller
UsizeBits == 4      \* width of usize and i64 in the offset arithmetic

Ids == 1..MaxId
Keys == 1..MaxKey
Pages == 1..(MaxId + 1)
PerPages == 1..(MaxId + 1)
DEFAULT_EMPTY_PASSWORD == ""
Passwords == {DEFAULT_EMPTY_PASSWORD, "pw"}
Messages == {"hello"}
Backends == {"memory", "sqlite"}

\* ------------------------------------------------- values of the ssi crate
\* Ssi: the public descriptor; only its pk is read by this crate (lib.rs:127).
Ssis == [pk : Keys]
\* EncryptedSecret: the private key concealed under a password.
conceal(key, passwd) == [key |-> key, pw |-> passwd]
EncryptedSecrets == {conceal(k, p) : k \in Keys, p \in Passwords}
to_public(key) == key
GarbageKey == 0
\* The records this crate stores: SsiMan::new_ssi, the only caller of
\* SsiStore::insert, stores a descriptor with the secret of the same key pair;
\* the C ABI always conceals under the default password.
Records == {<<[pk |-> to_public(k)], conceal(k, DEFAULT_EMPTY_PASSWORD)>> : k \in Keys}

\* ------------------------------------------------------------ Result, Error
NoErr == [kind |-> "none", detail |-> "", id |-> 0]
UnknownIdentity(i) == [kind |-> "UnknownIdentity", detail |-> "", id |-> i]
Diesel(detail) == [kind |-> "Diesel", detail |-> detail, id |-> 0]
SqliteConnectionErr == [kind |-> "SqliteConnection", detail |-> "", id |-> 0]
SecretReveal == [kind |-> "SecretReveal", detail |-> "", id |-> 0]
Signer(detail) == [kind |-> "Signer", detail |-> detail, id |-> 0]
UidParse == [kind |-> "UidParse", detail |-> "", id |-> 0]
SsiCertParse == [kind |-> "SsiCertParse", detail |-> "", id |-> 0]
VerifyText == [kind |-> "VerifyText", detail |-> "", id |-> 0]

Ok(v) == [ok |-> TRUE, err |-> NoErr, val |-> v]
Err(e) == [ok |-> FALSE, err |-> e, val |-> <<>>]

\* ------------------------------------------------------------- helpers
RECURSIVE SelectIds(_)
SelectIds(rows) ==
    IF rows = <<>> THEN <<>> ELSE <<Head(rows).id>> \o SelectIds(Tail(rows))

RECURSIVE DeleteWhere(_, _)
DeleteWhere(rows, i) ==
    IF rows = <<>> THEN <<>>
    ELSE IF Head(rows).id = i THEN DeleteWhere(Tail(rows), i)
    ELSE <<Head(rows)>> \o DeleteWhere(Tail(rows), i)

Matching(rows, i) == {n \in 1..Len(rows) : rows[n].id = i}
First(S) == CHOOSE n \in S : \A m \in S : n <= m

\* iterator .skip(n).take(k) / OFFSET n LIMIT k
SkipTake(seq, n, k) ==
    [j \in 1..(IF Len(seq) <= n THEN 0
               ELSE IF Len(seq) - n < k THEN Len(seq) - n ELSE k) |-> seq[n + j]]

IndexPerms(seq) ==
    {p \in [1..Len(seq) -> 1..Len(seq)] : \A a, b \in 1..Len(seq) : p[a] = p[b] => a = b}
Reorderings(seq) == {[j \in 1..Len(seq) |-> seq[p[j]]] : p \in IndexPerms(seq)}

\* (a as f64 / b as f64).ceil() as usize, exact for the small counts modelled
CeilDiv(a, b) == (a + b - 1) \div b

\* ------------------------------------------------ SsiMemoryStore (memory.rs)
\* records: HashMap<String, (Ssi, EncryptedSecret)>, kept as the sequence of
\* its entries in iteration order.  The order of a HashMap is unspecified and
\* may change whenever the map is mutated by an insert.
MemEntry(i, ssi, secret) == [id |-> i, ssi |-> ssi, secret |-> secret]

\* faulty variant: the entry is added beside an entry of the same identity
MemInsertAppend(records, i, ssi, secret) ==
    {[store |-> r, res |-> Ok(<<>>)] :
        r \in Reorderings(records \o <<MemEntry(i, ssi, secret)>>)}

MemInsert(records, i, ssi, secret) ==
    {[store |-> r, res |-> Ok(<<>>)] :
        r \in Reorderings(DeleteWhere(records, i) \o <<MemEntry(i, ssi, secret)>>)}

MemGet(records, i) ==
    IF Matching(records, i) = {} THEN Err(UnknownIdentity(i))
    ELSE LET e == records[First(Matching(records, i))] IN Ok(<<e.ssi, e.secret>>)

MemRemove(records, i) ==
    [store |-> DeleteWhere(records, i), res |-> Ok(Matching(records, i) # {})]

MemPaginated(records, page, per_page) ==
    Ok(<<SkipTake(SelectIds(records), (page - 1) * per_page, per_page), Len(records)>>)

MemAll(records) == Ok(SelectIds(records))

\* ------------------------------------------------ SsiSqliteStore (sqlite.rs)
\* SqliteTextWrapper: a value is written to a TEXT column through Display and
\* read back through FromStr; a text that does not parse is a
\* deserialization error.
ToSql(v) == [text |-> v]
FromSql(t) == IF "text" \in DOMAIN t THEN Ok(t.text) ELSE Err(Diesel("DeserializationError"))

\* table ssi_secrets(id TEXT PRIMARY KEY, ssi TEXT, secret TEXT), rows in rowid order
SsiSecretRow(i, ssi, secret) == [id |-> i, ssi |-> ToSql(ssi), secret |-> ToSql(secret)]
PrimaryKeyViolation(rows, i) == Matching(rows, i) # {}

SqlInsert(rows, i, ssi, secret) ==
    IF PrimaryKeyViolation(rows, i)
    THEN {[store |-> rows, res |-> Err(Diesel("UniqueViolation"))]}
    ELSE {[store |-> rows \o <<SsiSecretRow(i, ssi, secret)>>, res |-> Ok(<<>>)]}

\* faulty variant: the id filter is dropped, the first row is returned
SqlGetUnfiltered(rows, i) ==
    IF rows = <<>> THEN Err(Diesel("NotFound"))
    ELSE LET r == rows[1]
             d == FromSql(r.ssi)
             s == FromSql(r.secret)
         IN IF ~d.ok THEN d ELSE IF ~s.ok THEN s ELSE Ok(<<d.val, s.val>>)

SqlGet(rows, i) ==
    IF Matching(rows, i) = {} THEN Err(Diesel("NotFound"))
    ELSE LET r == rows[First(Matching(rows, i))]
             d == FromSql(r.ssi)
             s == FromSql(r.secret)
         IN IF ~d.ok THEN d ELSE IF ~s.ok THEN s ELSE Ok(<<d.val, s.val>>)

\* faulty variant: the delete loses its filter
SqlRemoveAll(rows, i) ==
    [store |-> <<>>, res |-> Ok(Cardinality(Matching(rows, i)) = 1)]

SqlRemove(rows, i) ==
    [store |-> DeleteWhere(rows, i), res |-> Ok(Cardinality(Matching(rows, i)) = 1)]

\* faulty variant: the page is taken as 0-indexed
SqlPaginatedZeroIndexed(rows, page, per_page) ==
    LET total == Len(rows)
        records == SkipTake(SelectIds(rows), page * per_page, per_page)
        total_pages == CeilDiv(total, per_page)
    IN Ok(<<records, total_pages>>)

SqlPaginated(rows, page, per_page) ==
    LET total == Len(rows)
        records == SkipTake(SelectIds(rows), (page - 1) * per_page, per_page)
        total_pages == CeilDiv(total, per_page)
    IN Ok(<<records, total_pages>>)

SqlAll(rows) == Ok(SelectIds(rows))

\* ------------------------------------------- trait SsiStore (dyn dispatch)
insert(b, st, i, ssi, secret) ==
    IF b = "memory" THEN MemInsert(st, i, ssi, secret) ELSE SqlInsert(st, i, ssi, secret)
get(b, st, i) == IF b = "memory" THEN MemGet(st, i) ELSE SqlGet(st, i)
remove(b, st, i) == IF b = "memory" THEN MemRemove(st, i) ELSE SqlRemove(st, i)
paginated_identities(b, st, page, per_page) ==
    IF b = "memory" THEN MemPaginated(st, page, per_page) ELSE SqlPaginated(st, page, per_page)
all_identities(b, st) == IF b = "memory" THEN MemAll(st) ELSE SqlAll(st)

\* ------------------------------------------------------- SsiMan (lib.rs)
\* EncryptedSecret::reveal: the right password gives the key back; a wrong one
\* either fails or decrypts to a key that is not the concealed one.
reveal(secret, passwd) ==
    IF passwd = secret.pw THEN {Ok(secret.key)} ELSE {Err(SecretReveal), Ok(GarbageKey)}

\* SsiPair::sign: the certificate names the signer's public key and the
\* message and carries the signature the secret key makes over the message
SsiCert(pk, key, message) == [pk |-> pk, msg |-> message, sig |-> <<key, message>>]

\* format!("{ssi_cert:#}") and SsiCert::from_str
CertToString(cert) == [text |-> cert]
CertFromStr(t) == IF "text" \in DOMAIN t THEN Ok(t.text) ELSE Err(SsiCertParse)

\* Display of an Ssi
SsiToString(ssi) == [text |-> ssi]

\* faulty variant: the revealed key is not compared with the stored descriptor
signNoKeyCheck(b, st, i, message, passwd) ==
    LET cow == get(b, st, i) IN
    IF ~cow.ok THEN {cow}
    ELSE {IF ~r.ok THEN r
          ELSE Ok(CertToString(SsiCert(cow.val[1].pk, r.val, message))) :
            r \in reveal(cow.val[2], passwd)}

sign(b, st, i, message, passwd) ==
    LET cow == get(b, st, i) IN
    IF ~cow.ok THEN {cow}
    ELSE {IF ~r.ok THEN r
          ELSE IF to_public(r.val) # cow.val[1].pk THEN Err(Signer("WrongPassword"))
          ELSE Ok(CertToString(SsiCert(cow.val[1].pk, r.val, message))) :
            r \in reveal(cow.val[2], passwd)}

ssi_cert_verify_text(ssi_cert, text) ==
    LET cert == CertFromStr(ssi_cert) IN
    IF ~cert.ok THEN cert
    ELSE IF cert.val.msg = text /\ cert.val.sig = <<cert.val.sig[1], text>>
            /\ to_public(cert.val.sig[1]) = cert.val.pk
         THEN Ok(<<>>)
         ELSE Err(VerifyText)

\* uid_ok: whether Uid::from_str accepts "{identity} <mailto:{email}>";
\* key: the key pair SsiSecret::new generates.
\* faulty variant: the record is inserted before the UID is parsed
new_ssiInsertFirst(b, st, identity, uid_ok, passwd, key) ==
    {[store |-> o.store,
      res |-> IF ~uid_ok THEN Err(UidParse)
              ELSE IF o.res.ok THEN Ok(SsiToString([pk |-> to_public(key)])) ELSE o.res] :
        o \in insert(b, st, identity, [pk |-> to_public(key)], conceal(key, passwd))}

new_ssi(b, st, identity, uid_ok, passwd, key) ==
    IF ~uid_ok THEN {[store |-> st, res |-> Err(UidParse)]}
    ELSE {[store |-> o.store,
           res |-> IF o.res.ok THEN Ok(SsiToString([pk |-> to_public(key)])) ELSE o.res] :
            o \in insert(b, st, identity, [pk |-> to_public(key)], conceal(key, passwd))}

\* ------------------------------------------------------------ ffi (ffi.rs)
NULL == 0
Dangling == -1      \* the non-null address of an empty boxed slice: no allocation
DbPaths == {"null", "good", "bad"}

Alloc(kind, l) == [kind |-> kind, list |-> l, live |-> TRUE, frees |-> 0]

\* the embedded migrations create the ssi_secrets table; on a location that
\* is already migrated nothing is pending
run_pending_migrations(table) == table

\* SsiSqliteStore::new: establish the connection, then run the migrations
SsiSqliteStoreNew(table, db_path) ==
    IF db_path = "good"
    THEN Ok([backend |-> "sqlite", store |-> run_pending_migrations(table)])
    ELSE Err(SqliteConnectionErr)

\* faulty variant: the null test is inverted
ssi_man_newInverted(table, db_path) ==
    IF db_path = "null"
    THEN SsiSqliteStoreNew(table, "good")
    ELSE Ok([backend |-> "memory", store |-> <<>>])

\* ssi_man_new with the sqlite feature on: a null db_path selects a new
\* memory store, another one opens the table at that location
ssi_man_new(table, db_path) ==
    IF db_path # "null"
    THEN SsiSqliteStoreNew(table, db_path)
    ELSE Ok([backend |-> "memory", store |-> <<>>])

\* to_c_char: CString::into_raw, one allocation owned by the caller
to_c_char(hp) == [heap |-> Append(hp, Alloc("cstring", 0)), ptr |-> Len(hp) + 1]

\* faulty variant: what the call wrote is lost with its connection
PersistedNever(table, man, st) == table

Persisted(table, man, st) == IF man.backend = "sqlite" THEN st ELSE table

ssi_new(table, hp, name, uid_ok, db_path, key) ==
    LET man == ssi_man_new(table, db_path) IN
    IF ~man.ok THEN {[db |-> table, heap |-> hp, result |-> man, value |-> NULL]}
    ELSE {IF o.res.ok
          THEN [db |-> Persisted(table, man.val, o.store), heap |-> to_c_char(hp).heap,
                result |-> o.res, value |-> to_c_char(hp).ptr]
          ELSE [db |-> Persisted(table, man.val, o.store), heap |-> hp,
                result |-> o.res, value |-> NULL] :
            o \in new_ssi(man.val.backend, man.val.store, name, uid_ok,
                          DEFAULT_EMPTY_PASSWORD, key)}

ssi_sign(table, hp, ssi, message, db_path) ==
    LET man == ssi_man_new(table, db_path) IN
    IF ~man.ok THEN {[heap |-> hp, result |-> man, value |-> NULL]}
    ELSE {IF r.ok
          THEN [heap |-> to_c_char(hp).heap, result |-> r, value |-> to_c_char(hp).ptr]
          ELSE [heap |-> hp, result |-> r, value |-> NULL] :
            r \in sign(man.val.backend, man.val.store, ssi, message, DEFAULT_EMPTY_PASSWORD)}

\* the allocations of one successful ssi_list over n identities: n CStrings,
\* the Vec<CString> buffer and the boxed pointer slice when n > 0, and the
\* Box that holds the Vec
ListAllocs(n, l) ==
    [j \in 1..n |-> Alloc("cstring", l)]
        \o (IF n > 0 THEN <<Alloc("vec", l), Alloc("array", l)>> ELSE <<>>)
        \o <<Alloc("box", l)>>

\* faulty variant: the error status is the default integer instead of -1
ssi_listDefaultStatus(table, hp, ls, cells, db_path) ==
    LET man == ssi_man_new(table, db_path)
        identities == IF man.ok THEN all_identities(man.val.backend, man.val.store) ELSE man
    IN
    IF ~identities.ok
    THEN [heap |-> hp, lists |-> ls, out |-> cells, result |-> identities,
          wrote |-> FALSE, value |-> 0]
    ELSE LET n == Len(identities.val)
             c_ptrs == [j \in 1..n |-> Len(hp) + j]
             leaked_array == IF n > 0 THEN Len(hp) + n + 2 ELSE Dangling
         IN [heap |-> hp \o ListAllocs(n, Len(ls) + 1),
             lists |-> Append(ls, [ssis |-> leaked_array, len |-> n, elems |-> c_ptrs,
                                   ids |-> identities.val, freed |-> 0]),
             out |-> [ssis |-> leaked_array, len |-> n],
             result |-> identities, wrote |-> TRUE, value |-> 0]

ssi_list(table, hp, ls, cells, db_path) ==
    LET man == ssi_man_new(table, db_path)
        identities == IF man.ok THEN all_identities(man.val.backend, man.val.store) ELSE man
    IN
    IF ~identities.ok
    THEN [heap |-> hp, lists |-> ls, out |-> cells, result |-> identities,
          wrote |-> FALSE, value |-> -1]
    ELSE LET n == Len(identities.val)
             c_ptrs == [j \in 1..n |-> Len(hp) + j]
             leaked_array == IF n > 0 THEN Len(hp) + n + 2 ELSE Dangling
         IN [heap |-> hp \o ListAllocs(n, Len(ls) + 1),
             lists |-> Append(ls, [ssis |-> leaked_array, len |-> n, elems |-> c_ptrs,
                                   ids |-> identities.val, freed |-> 0]),
             out |-> [ssis |-> leaked_array, len |-> n],
             result |-> identities, wrote |-> TRUE, value |-> 0]

\* CString::from_raw + drop of one element
FreeCString(hp, s) == [hp EXCEPT ![s] = [@ EXCEPT !.live = FALSE, !.frees = @ + 1]]

RECURSIVE FreeSlice(_, _, _)
FreeSlice(hp, slice, k) ==
    IF k > Len(slice) THEN hp
    ELSE FreeSlice(IF slice[k] # NULL THEN FreeCString(hp, slice[k]) ELSE hp, slice, k + 1)

\* faulty variant: the loop stops one element early
free_string_arrayOffByOne(hp, array, elems, len) ==
    IF array = NULL THEN hp ELSE FreeSlice(hp, SubSeq(elems, 1, len - 1), 1)

\* elems: the memory at array, of which the first len elements are read
free_string_array(hp, array, elems, len) ==
    IF array = NULL THEN hp ELSE FreeSlice(hp, SubSeq(elems, 1, len), 1)

\* ------------------------------------------------------------------ state
VARIABLES
    backend,    \* which SsiStore the SsiMan owns
    store,      \* its records (HashMap entries or table rows)
    track,      \* history: per identifier, the pair of the last successful insert not removed since
    last,       \* the last call and what it returned
    eqMem,      \* lock-step run: the memory backend
    eqSql,      \* lock-step run: the durable backend
    eqLast,     \* lock-step run: the last call and both outcomes
    db,         \* C ABI: the ssi_secrets table at the persistent location
    heap,       \* C ABI: every allocation handed out so far, by address
    lists,      \* C ABI: what each successful ssi_list call returned
    out,        \* C ABI: the caller's out_ssis / out_len cells
    ret,        \* C ABI: the last call and what it returned
    created,    \* C ABI history: identifiers a successful ssi_new stored at the persistent location
    shared,     \* two connections: the ssi_secrets table both of them see
    txn,        \* two connections: where the paginated_identities call of the first one stands
    txSnap,     \* two connections, history: the table when the count query ran
    txBusy,     \* two connections, history: the other connection was refused during the call
    prevRead    \* read stability, history: the last listing call since the last mutation

storeVars == <<backend, store, track, last>>
eqVars == <<eqMem, eqSql, eqLast>>
ffiVars == <<db, heap, lists, out, ret, created>>
txVars == <<shared, txn, txSnap, txBusy>>
auxVars == <<txVars, prevRead>>
vars == <<backend, store, track, last, eqMem, eqSql, eqLast, db, heap, lists, out, ret, created,
          shared, txn, txSnap, txBusy, prevRead>>

None == <<>>
Stored(st, i) == Matching(st, i) # {}

InitStore ==
    /\ store = <<>>
    /\ track = [i \in Ids |-> None]
    /\ last = [op |-> "new", id |-> 0, res |-> Ok(<<>>)]

InitEq ==
    /\ eqMem = <<>>
    /\ eqSql = <<>>
    /\ eqLast = [op |-> "new", mem |-> Ok(<<>>), sql |-> Ok(<<>>)]

InitFfi ==
    /\ db = <<>>
    /\ heap = <<>>
    /\ lists = <<>>
    /\ out = [ssis |-> NULL, len |-> 0]
    /\ ret = [fn |-> "none"]
    /\ created = {}

InitAux ==
    /\ shared = <<>>
    /\ txn = [pc |-> "idle"]
    /\ txSnap = <<>>
    /\ txBusy = FALSE
    /\ prevRead = [op |-> "none"]

\* SsiMan::with_memory / SsiMan::with_sqlite on a healthy, empty location
Init ==
    /\ backend \in Backends
    /\ InitStore
    /\ InitEq
    /\ InitFfi
    /\ InitAux

Insert(i, ssi, secret) ==
    \E o \in insert(backend, store, i, ssi, secret) :
        /\ store' = o.store
        /\ track' = IF o.res.ok THEN [track EXCEPT ![i] = <<ssi, secret>>] ELSE track
        /\ last' = [op |-> "insert", id |-> i, existed |-> Stored(store, i), res |-> o.res]
        /\ UNCHANGED <<backend, eqVars, ffiVars, auxVars>>

\* faulty variant: the record is taken out of the store
GetTaking(i) ==
    /\ last' = [op |-> "get", id |-> i, res |-> get(backend, store, i)]
    /\ store' = remove(backend, store, i).store
    /\ UNCHANGED <<backend, track, eqVars, ffiVars, auxVars>>

Get(i) ==
    /\ last' = [op |-> "get", id |-> i, res |-> get(backend, store, i)]
    /\ UNCHANGED <<backend, store, track, eqVars, ffiVars, auxVars>>

Remove(i) ==
    LET o == remove(backend, store, i) IN
    /\ store' = o.store
    /\ track' = [track EXCEPT ![i] = None]
    /\ last' = [op |-> "remove", id |-> i, existed |-> Stored(store, i),
                second |-> (last.op = "remove" /\ last.id = i /\ last.existed),
                res |-> o.res]
    /\ UNCHANGED <<backend, eqVars, ffiVars, auxVars>>

PaginatedIdentities(page, per_page) ==
    /\ last' = [op |-> "paginated_identities", id |-> 0, page |-> page, per_page |-> per_page,
                res |-> paginated_identities(backend, store, page, per_page)]
    /\ UNCHANGED <<backend, store, track, eqVars, ffiVars, auxVars>>

AllIdentities ==
    /\ last' = [op |-> "all_identities", id |-> 0, res |-> all_identities(backend, store)]
    /\ UNCHANGED <<backend, store, track, eqVars, ffiVars, auxVars>>

Sign(i, message, passwd) ==
    \E r \in sign(backend, store, i, message, passwd) :
        /\ last' = [op |-> "sign", id |-> i, msg |-> message, passwd |-> passwd, res |-> r]
        /\ UNCHANGED <<backend, store, track, eqVars, ffiVars, auxVars>>

Next ==
    \/ \E i \in Ids, rec \in Records : Insert(i, rec[1], rec[2])
    \/ \E i \in Ids : Get(i)
    \/ \E i \in Ids : Remove(i)
    \/ \E page \in Pages, per_page \in PerPages : PaginatedIdentities(page, per_page)
    \/ AllIdentities
    \/ \E i \in Ids, m \in Messages, p \in Passwords : Sign(i, m, p)

Spec == Init /\ [][Next]_vars

\* ------------------------------------------- SsiMan creating and signing
NewSsi(identity, uid_ok, passwd, key) ==
    \E o \in new_ssi(backend, store, identity, uid_ok, passwd, key) :
        /\ store' = o.store
        /\ track' = IF o.res.ok
                    THEN [track EXCEPT ![identity] = <<[pk |-> to_public(key)], conceal(key, passwd)>>]
                    ELSE track
        /\ last' = [op |-> "new_ssi", id |-> identity, uid_ok |-> uid_ok, res |-> o.res]
        /\ UNCHANGED <<backend, eqVars, ffiVars, auxVars>>

\* the key pairs SsiSecret::new generates in this specification
NewKeys == 1..(MaxKey - 1)

ManNext ==
    \/ \E i \in Ids, uid_ok \in BOOLEAN, p \in Passwords, k \in NewKeys : NewSsi(i, uid_ok, p, k)
    \/ \E i \in Ids, m \in Messages, p \in Passwords : Sign(i, m, p)
    \/ \E i \in Ids : Remove(i)

SpecMan == Init /\ [][ManNext]_vars

\* ------------------------------------------------ both backends in lock-step
EqInit ==
    /\ backend = "memory"
    /\ InitStore
    /\ InitEq
    /\ InitFfi
    /\ InitAux

EqInsert(i, ssi, secret) ==
    \E m \in MemInsert(eqMem, i, ssi, secret), s \in SqlInsert(eqSql, i, ssi, secret) :
        /\ eqMem' = m.store
        /\ eqSql' = s.store
        /\ eqLast' = [op |-> "insert", mem |-> m.res, sql |-> s.res]
        /\ UNCHANGED <<storeVars, ffiVars, auxVars>>

EqGet(i) ==
    /\ eqLast' = [op |-> "get", mem |-> MemGet(eqMem, i), sql |-> SqlGet(eqSql, i)]
    /\ UNCHANGED <<eqMem, eqSql, storeVars, ffiVars, auxVars>>

EqRemove(i) ==
    /\ eqMem' = MemRemove(eqMem, i).store
    /\ eqSql' = SqlRemove(eqSql, i).store
    /\ eqLast' = [op |-> "remove", mem |-> MemRemove(eqMem, i).res, sql |-> SqlRemove(eqSql, i).res]
    /\ UNCHANGED <<storeVars, ffiVars, auxVars>>

EqPaginatedIdentities(page, per_page) ==
    /\ eqLast' = [op |-> "paginated_identities", mem |-> MemPaginated(eqMem, page, per_page),
                  sql |-> SqlPaginated(eqSql, page, per_page)]
    /\ UNCHANGED <<eqMem, eqSql, storeVars, ffiVars, auxVars>>

EqAllIdentities ==
    /\ eqLast' = [op |-> "all_identities", mem |-> MemAll(eqMem), sql |-> SqlAll(eqSql)]
    /\ UNCHANGED <<eqMem, eqSql, storeVars, ffiVars, auxVars>>

EqNext ==
    \/ \E i \in Ids, rec \in Records : EqInsert(i, rec[1], rec[2])
    \/ \E i \in Ids : EqGet(i)
    \/ \E i \in Ids : EqRemove(i)
    \/ \E page \in Pages, per_page \in PerPages : EqPaginatedIdentities(page, per_page)
    \/ EqAllIdentities

SpecEq == EqInit /\ [][EqNext]_vars

\* ------------------------------------------------------------ the C ABI
FfiInit ==
    /\ backend = "memory"
    /\ InitStore
    /\ InitEq
    /\ InitFfi
    /\ InitAux

\* calls that have handed memory to the caller so far
AllocCalls ==
    Cardinality({a \in 1..Len(heap) :
        heap[a].kind = "box" \/ (heap[a].kind = "cstring" /\ heap[a].list = 0)})

SsiNew(name, uid_ok, db_path, key) ==
    /\ AllocCalls < MaxCalls
    /\ \E o \in ssi_new(db, heap, name, uid_ok, db_path, key) :
        /\ db' = o.db
        /\ heap' = o.heap
        /\ ret' = [fn |-> "ssi_new", ok |-> o.result.ok, err |-> o.result.err.kind,
                   value |-> o.value, wrote |-> FALSE, path |-> db_path]
        /\ created' = IF o.result.ok /\ db_path # "null" THEN created \cup {name} ELSE created
    /\ UNCHANGED <<lists, out, storeVars, eqVars, auxVars>>

SsiSign(ssi, message, db_path) ==
    /\ AllocCalls < MaxCalls
    /\ \E o \in ssi_sign(db, heap, ssi, message, db_path) :
        /\ heap' = o.heap
        /\ ret' = [fn |-> "ssi_sign", ok |-> o.result.ok, err |-> o.result.err.kind,
                   value |-> o.value, wrote |-> FALSE, path |-> db_path]
    /\ UNCHANGED <<db, lists, out, created, storeVars, eqVars, auxVars>>

SsiList(db_path) ==
    /\ AllocCalls < MaxCalls
    /\ LET o == ssi_list(db, heap, lists, out, db_path) IN
        /\ heap' = o.heap
        /\ lists' = o.lists
        /\ out' = o.out
        /\ ret' = [fn |-> "ssi_list", ok |-> o.result.ok, err |-> o.result.err.kind,
                   value |-> o.value, wrote |-> o.wrote, path |-> db_path]
    /\ UNCHANGED <<db, created, storeVars, eqVars, auxVars>>

\* what a caller may pass: the elements read are null or live strings this
\* library returned, no string twice
ValidElems(elems, len) ==
    /\ \A k \in 1..len : elems[k] # NULL =>
            /\ elems[k] \in 1..Len(heap)
            /\ heap[elems[k]].kind = "cstring"
            /\ heap[elems[k]].live
            /\ \A j \in 1..len : elems[j] = elems[k] => j = k

FreeStringArray(array, elems, len) ==
    /\ array # NULL => (len <= Len(elems) /\ ValidElems(elems, len))
    /\ heap' = free_string_array(heap, array, elems, len)
    /\ ret' = [fn |-> "free_string_array", array |-> array, elems |-> elems, len |-> len]

\* free_string_array(NULL, len)
FreeNull(len) ==
    /\ FreeStringArray(NULL, <<>>, len)
    /\ UNCHANGED <<db, lists, out, created, storeVars, eqVars, auxVars>>

\* free_string_array on what the l-th ssi_list returned, not yet given back in full
FreeList(l, len) ==
    /\ lists[l].freed = 0
    /\ FreeStringArray(lists[l].ssis, lists[l].elems, len)
    /\ lists' = [lists EXCEPT ![l].freed = IF len = lists[l].len THEN @ + 1 ELSE @]
    /\ UNCHANGED <<db, out, created, storeVars, eqVars, auxVars>>

\* free_string_array on an array the caller built from strings that
\* ssi_new / ssi_sign returned, null elements allowed
CallerArray == -2
OwnedStrings == {a \in 1..Len(heap) : heap[a].kind = "cstring" /\ heap[a].list = 0 /\ heap[a].live}
FreeCaller(elems, len) ==
    /\ FreeStringArray(CallerArray, elems, len)
    /\ UNCHANGED <<db, lists, out, created, storeVars, eqVars, auxVars>>

FfiNext ==
    \/ \E name \in Ids, uid_ok \in BOOLEAN, db_path \in DbPaths, key \in Keys :
            SsiNew(name, uid_ok, db_path, key)
    \/ \E ssi \in Ids, m \in Messages, db_path \in DbPaths : SsiSign(ssi, m, db_path)
    \/ \E db_path \in DbPaths : SsiList(db_path)
    \/ \E len \in 0..MaxId : FreeNull(len)
    \/ \E l \in 1..Len(lists), len \in 0..MaxId : FreeList(l, len)
    \/ \E e1, e2 \in OwnedStrings \cup {NULL}, len \in 0..2 : FreeCaller(<<e1, e2>>, len)

SpecFfi == FfiInit /\ [][FfiNext]_vars

\* ------------------------------------------- listing calls, repeated
\* prevRead keeps the last listing call made since the last insert or remove
ReadInsert(i, ssi, secret) ==
    \E o \in insert(backend, store, i, ssi, secret) :
        /\ store' = o.store
        /\ prevRead' = [op |-> "none"]
        /\ UNCHANGED <<backend, track, last, eqVars, ffiVars, txVars>>

ReadRemove(i) ==
    /\ store' = remove(backend, store, i).store
    /\ prevRead' = [op |-> "none"]
    /\ UNCHANGED <<backend, track, last, eqVars, ffiVars, txVars>>

\* faulty variant: the record that was read moves to the front
ReadGetMoveToFront(i) ==
    /\ store' = IF Stored(store, i)
                THEN <<store[First(Matching(store, i))]>> \o DeleteWhere(store, i)
                ELSE store
    /\ prevRead' = IF prevRead.op = "none" THEN prevRead ELSE [prevRead EXCEPT !.between = TRUE]
    /\ UNCHANGED <<backend, track, last, eqVars, ffiVars, txVars>>

ReadGet(i) ==
    /\ get(backend, store, i).ok = Stored(store, i)
    /\ prevRead' = IF prevRead.op = "none" THEN prevRead ELSE [prevRead EXCEPT !.between = TRUE]
    /\ UNCHANGED <<backend, store, track, last, eqVars, ffiVars, txVars>>

Listed(op, page, per_page, res) ==
    [op |-> op, page |-> page, per_page |-> per_page, res |-> res, between |-> FALSE,
     again |-> IF prevRead.op # op THEN "first"
               ELSE IF prevRead.page # page \/ prevRead.per_page # per_page THEN "first"
               ELSE IF prevRead.between THEN "after get"
               ELSE "directly"]

ReadPaginated(page, per_page) ==
    /\ prevRead' = Listed("paginated_identities", page, per_page,
                          paginated_identities(backend, store, page, per_page))
    /\ UNCHANGED <<backend, store, track, last, eqVars, ffiVars, txVars>>

ReadAll ==
    /\ prevRead' = Listed("all_identities", 0, 0, all_identities(backend, store))
    /\ UNCHANGED <<backend, store, track, last, eqVars, ffiVars, txVars>>

ReadNext ==
    \/ \E i \in Ids, rec \in Records : ReadInsert(i, rec[1], rec[2])
    \/ \E i \in Ids : ReadRemove(i)
    \/ \E i \in Ids : ReadGet(i)
    \/ \E page \in Pages, per_page \in PerPages : ReadPaginated(page, per_page)
    \/ ReadAll

SpecRead == Init /\ [][ReadNext]_vars

\* ------------------------------------------- the offset in machine integers
\* usize and i64 have the same width; a debug build checks usize arithmetic
\* and panics, a release build wraps.
UsizeModulus == 2 ^ UsizeBits
UsizeMax == UsizeModulus - 1
UsizeSamples == {0, 1, 2, UsizeMax}
Builds == {"debug", "release"}

\* (page - 1) * per_page
Offset(page, per_page, build) ==
    LET underflow == page - 1 < 0
        diff == (page - 1) % UsizeModulus
        overflow == diff * per_page > UsizeMax
    IN [underflow |-> underflow,
        overflow |-> overflow /\ ~(build = "debug" /\ underflow),
        abort |-> build = "debug" /\ (underflow \/ overflow),
        val |-> (diff * per_page) % UsizeModulus]

\* usize as i64
AsI64(u) == IF u > UsizeMax \div 2 THEN u - UsizeModulus ELSE u

\* (total as f64 / per_page as f64).ceil() as usize: the cast saturates,
\* NaN becomes 0
F64CeilDiv(total, per_page) ==
    IF per_page # 0 THEN CeilDiv(total, per_page)
    ELSE IF total = 0 THEN 0 ELSE UsizeMax

\* OFFSET and LIMIT of SQLite: a negative OFFSET counts as 0, a negative
\* LIMIT as no limit
SqlOffsetLimit(seq, offset, limit) ==
    SkipTake(seq, IF offset < 0 THEN 0 ELSE offset, IF limit < 0 THEN Len(seq) ELSE limit)

MemPaginatedUsize(records, page, per_page, build) ==
    LET off == Offset(page, per_page, build) IN
    [underflow |-> off.underflow, overflow |-> off.overflow, abort |-> off.abort,
     res |-> IF off.abort THEN None
             ELSE Ok(<<SkipTake(SelectIds(records), off.val, per_page), Len(records)>>)]

SqlPaginatedUsize(rows, page, per_page, build) ==
    LET off == Offset(page, per_page, build) IN
    [underflow |-> off.underflow, overflow |-> off.overflow, abort |-> off.abort,
     res |-> IF off.abort THEN None
             ELSE Ok(<<SqlOffsetLimit(SelectIds(rows), AsI64(off.val), AsI64(per_page)),
                       F64CeilDiv(Len(rows), per_page)>>)]

PaginatedUsize(page, per_page, build) ==
    LET o == IF backend = "memory" THEN MemPaginatedUsize(store, page, per_page, build)
             ELSE SqlPaginatedUsize(store, page, per_page, build) IN
    /\ last' = [op |-> "paginated_usize", id |-> 0, page |-> page, per_page |-> per_page,
                build |-> build, underflow |-> o.underflow, overflow |-> o.overflow,
                abort |-> o.abort, res |-> o.res]
    /\ UNCHANGED <<backend, store, track, eqVars, ffiVars, auxVars>>

ArithNext ==
    \/ \E i \in Ids, rec \in Records : Insert(i, rec[1], rec[2])
    \/ \E page \in UsizeSamples, per_page \in UsizeSamples, build \in Builds :
            PaginatedUsize(page, per_page, build)

SpecArith == Init /\ [][ArithNext]_vars

\* ------------------------- paginated_identities beside another connection
\* The sqlite call runs its two queries inside connection.transaction: BEGIN,
\* the count query, the page query, COMMIT.  From its first read to the
\* COMMIT the transaction holds the shared lock of the database file, and
\* another connection that tries to write meanwhile is refused.
TxInit ==
    /\ backend = "sqlite"
    /\ InitStore
    /\ InitEq
    /\ InitFfi
    /\ InitAux

\* faulty variant: the two queries run as separate statements, no lock
\* is kept from one to the next
LockHeldAutocommit(pc) == FALSE

LockHeld(pc) == pc \in {"counted", "fetched"}

count_star(rows) == Len(rows)

PageQuery(rows, page, per_page) ==
    SkipTake(SelectIds(rows), (page - 1) * per_page, per_page)

TxBegin(page, per_page) ==
    /\ txn.pc = "idle"
    /\ txn' = [pc |-> "begun", page |-> page, per_page |-> per_page]
    /\ txSnap' = <<>>
    /\ txBusy' = FALSE
    /\ UNCHANGED <<shared, prevRead, storeVars, eqVars, ffiVars>>

TxCount ==
    /\ txn.pc = "begun"
    /\ txn' = [pc |-> "counted", page |-> txn.page, per_page |-> txn.per_page,
               total |-> count_star(shared)]
    /\ txSnap' = shared
    /\ UNCHANGED <<shared, txBusy, prevRead, storeVars, eqVars, ffiVars>>

TxFetch ==
    /\ txn.pc = "counted"
    /\ txn' = [pc |-> "fetched", page |-> txn.page, per_page |-> txn.per_page,
               res |-> Ok(<<PageQuery(shared, txn.page, txn.per_page),
                            CeilDiv(txn.total, txn.per_page)>>)]
    /\ UNCHANGED <<shared, txSnap, txBusy, prevRead, storeVars, eqVars, ffiVars>>

\* COMMIT; the call returns txn.res
TxCommit ==
    /\ txn.pc = "fetched"
    /\ txn' = [pc |-> "idle"]
    /\ txSnap' = <<>>
    /\ txBusy' = FALSE
    /\ UNCHANGED <<shared, prevRead, storeVars, eqVars, ffiVars>>

\* insert through the other connection
OtherInsert(i, ssi, secret) ==
    /\ IF LockHeld(txn.pc)
       THEN shared' = shared /\ txBusy' = TRUE
       ELSE (\E o \in SqlInsert(shared, i, ssi, secret) : shared' = o.store)
            /\ txBusy' = txBusy
    /\ UNCHANGED <<txn, txSnap, prevRead, storeVars, eqVars, ffiVars>>

\* remove through the other connection
OtherRemove(i) ==
    /\ IF LockHeld(txn.pc)
       THEN shared' = shared /\ txBusy' = TRUE
       ELSE shared' = SqlRemove(shared, i).store /\ txBusy' = txBusy
    /\ UNCHANGED <<txn, txSnap, prevRead, storeVars, eqVars, ffiVars>>

TxNext ==
    \/ \E page \in Pages, per_page \in PerPages : TxBegin(page, per_page)
    \/ TxCount
    \/ TxFetch
    \/ TxCommit
    \/ \E i \in Ids, rec \in Records : OtherInsert(i, rec[1], rec[2])
    \/ \E i \in Ids : OtherRemove(i)

SpecTx == TxInit /\ [][TxNext]_vars

\* ------------------------------------------------------------ properties
Count(seq, x) == Cardinality({n \in 1..Len(seq) : seq[n] = x})
StoredIds(st) == {st[n].id : n \in 1..Len(st)}

\* C1: a pair stored by a successful insert(i, d, s), with no remove(i) and no
\* later successful insert(i, ..) since, is what get(i) returns, in the memory
\* and in the durable backend, whatever happened to other identifiers.
C1_RoundTrip ==
    /\ \A i \in Ids : track[i] # None => get(backend, store, i) = Ok(track[i])
    /\ (last.op = "get" /\ track[last.id] # None) => last.res = Ok(track[last.id])

C1_Witness ==
    /\ backend = "sqlite"
    /\ last.op = "get"
    /\ Len(store) = 2
    /\ last.id = store[2].id
    /\ last.res.ok
    /\ last.res.val = track[last.id]
    /\ track[store[1].id] # track[store[2].id]

\* C2: an insert on an identifier that is already stored returns Ok, get then
\* returns the new pair, and the identifier is listed exactly once.
C2_InsertOverwrites ==
    (last.op = "insert" /\ last.existed) =>
        /\ last.res.ok
        /\ track[last.id] # None
        /\ get(backend, store, last.id) = Ok(track[last.id])
        /\ Count(all_identities(backend, store).val, last.id) = 1

\* C3: get and sign on an identifier that is not stored fail with
\* UnknownIdentity(i) in every backend.
C3_UnknownIdentity ==
    (last.op \in {"get", "sign"} /\ ~Stored(store, last.id)) =>
        last.res = Err(UnknownIdentity(last.id))

\* C4: paginated_identities(page, k) returns ceil(N / k) as its total-page
\* count, N being the number of stored records.
C4_PageCount ==
    last.op = "paginated_identities" =>
        /\ last.res.ok
        /\ last.res.val[2] = CeilDiv(Len(all_identities(backend, store).val), last.per_page)

\* C5: for every per_page k >= 1 the pages 1..ceil(N/k) hold at most k
\* identifiers each, the pages beyond are empty, and together the pages hold
\* every identifier of all_identities() exactly once.
PageOf(p, k) == paginated_identities(backend, store, p, k).val[1]
RECURSIVE PagesUpTo(_, _)
PagesUpTo(P, k) == IF P = 0 THEN <<>> ELSE PagesUpTo(P - 1, k) \o PageOf(P, k)
C5_PagePartition ==
    LET all == all_identities(backend, store).val IN
    /\ \A k \in PerPages :
        LET P == CeilDiv(Len(all), k)
            union == PagesUpTo(P, k)
        IN
        /\ \A p \in 1..P : Len(PageOf(p, k)) <= k
        /\ \A p \in Pages : p > P => PageOf(p, k) = <<>>
        /\ \A n \in 1..Len(all) : Count(union, all[n]) = 1
        /\ \A n \in 1..Len(union) : Count(all, union[n]) = 1
    /\ last.op = "paginated_identities" =>
        /\ last.res.val[1] = PageOf(last.page, last.per_page)
        /\ Len(last.res.val[1]) <= last.per_page

C5_Witness ==
    /\ last.op = "paginated_identities"
    /\ Len(store) = MaxId
    /\ last.per_page = 1
    /\ last.page = 2
    /\ Len(last.res.val[1]) = 1
    /\ last.res.val[1] # PageOf(1, 1)

\* C6: remove(i) returns true exactly when i was stored and deletes that
\* record only; on an absent identifier it returns Ok(false) and changes
\* nothing; a second remove(i) in a row returns false.
C6_Remove ==
    /\ \A i \in Ids :
        LET o == remove(backend, store, i) IN
        /\ o.res = Ok(Stored(store, i))
        /\ ~Stored(o.store, i)
        /\ \A j \in Ids \ {i} : get(backend, o.store, j) = get(backend, store, j)
        /\ StoredIds(o.store) = StoredIds(store) \ {i}
        /\ ~Stored(store, i) => o.store = store
        /\ remove(backend, o.store, i).res = Ok(FALSE)
    /\ last.op = "remove" =>
        /\ last.res = Ok(last.existed)
        /\ ~Stored(store, last.id)
        /\ last.second => last.res = Ok(FALSE)

C6_Witness ==
    /\ last.op = "remove"
    /\ last.second
    /\ last.res = Ok(FALSE)
    /\ Len(store) >= 1
Range(seq) == {seq[n] : n \in 1..Len(seq)}

\* C7: the same sequence of store operations applied to an empty memory
\* backend and to an empty durable backend returns the same outcome at every
\* call: same success or failure, same error kind, same values, same
\* total-page count, same identifiers up to order.
SameOutcome(op, m, s) ==
    /\ m.ok = s.ok
    /\ ~m.ok => m.err.kind = s.err.kind
    /\ (m.ok /\ op \in {"get", "remove"}) => m.val = s.val
    /\ (m.ok /\ op = "paginated_identities") =>
            m.val[2] = s.val[2] /\ Len(m.val[1]) = Len(s.val[1])
    /\ (m.ok /\ op = "all_identities") =>
            Range(m.val) = Range(s.val) /\ Len(m.val) = Len(s.val)
C7_BackendEquivalence == SameOutcome(eqLast.op, eqLast.mem, eqLast.sql)
\* C8: once free_string_array has been called exactly once with the pointer
\* and length an ssi_list call returned, every allocation of that ssi_list
\* call (strings, pointer array, backing structure) has been released
\* exactly once.
C8_ListFreeReleasesAll ==
    \A l \in 1..Len(lists) : lists[l].freed = 1 =>
        \A a \in 1..Len(heap) : heap[a].list = l =>
            ~heap[a].live /\ heap[a].frees = 1

\* C9: free_string_array with a null array changes nothing; with a non-null
\* array it releases each non-null element among the first len exactly once
\* and nothing else.
FreedBy(elems, len) == {elems[k] : k \in 1..len} \ {NULL}
C9_FreeStringArray ==
    [][ret'.fn = "free_string_array" =>
        /\ ret'.array = NULL => heap' = heap
        /\ ret'.array # NULL =>
            /\ Len(heap') = Len(heap)
            /\ \A a \in 1..Len(heap) :
                IF a \in FreedBy(ret'.elems, ret'.len)
                THEN /\ heap[a].live /\ ~heap'[a].live
                     /\ heap'[a].frees = heap[a].frees + 1
                     /\ heap'[a].frees = 1
                ELSE heap'[a] = heap[a]]_vars

C9_Witness ==
    /\ ret.fn = "free_string_array"
    /\ ret.array # NULL
    /\ ret.len = 2
    /\ ret.elems[1] = NULL
    /\ ret.elems[2] # NULL
    /\ heap[ret.elems[2]].frees = 1

\* C10: when the Manager construction or the Manager call fails, ssi_new and
\* ssi_sign return null and ssi_list returns a negative status, nothing is
\* allocated and ssi_list writes neither out_ssis nor out_len; on success
\* ssi_new and ssi_sign return a non-null pointer and ssi_list returns 0.
C10_ErrorPath ==
    [][/\ (ret'.fn \in {"ssi_new", "ssi_sign"} /\ ~ret'.ok) =>
            ret'.value = NULL /\ heap' = heap
       /\ (ret'.fn \in {"ssi_new", "ssi_sign"} /\ ret'.ok) =>
            /\ ret'.value # NULL
            /\ ret'.value = Len(heap')
            /\ heap'[ret'.value].kind = "cstring" /\ heap'[ret'.value].live
       /\ (ret'.fn = "ssi_list" /\ ~ret'.ok) =>
            /\ ret'.value < 0
            /\ heap' = heap
            /\ lists' = lists
            /\ ~ret'.wrote /\ out' = out
       /\ (ret'.fn = "ssi_list" /\ ret'.ok) => ret'.value = 0 /\ ret'.wrote]_vars

C10_Witness ==
    /\ ret.fn = "ssi_list"
    /\ ~ret.ok
    /\ ret.err = "SqliteConnection"
    /\ ret.value = -1
    /\ Len(db) > 0
    /\ out = [ssis |-> NULL, len |-> 0]

\* C11: an identity that ssi_new stored at a persistent location is returned
\* by every later ssi_list on that location, each call opening the table
\* anew and running the migrations; opening never drops or alters records.
C11_Durable ==
    /\ created \subseteq Range(SelectIds(db))
    /\ \A path \in DbPaths :
        LET man == ssi_man_new(db, path) IN
        (man.ok /\ man.val.backend = "sqlite") => man.val.store = db
    /\ (ret.fn = "ssi_list" /\ ret.path = "good") =>
        /\ ret.ok
        /\ created \subseteq Range(lists[Len(lists)].ids)
        /\ out.len = Len(lists[Len(lists)].ids)

C11_Witness ==
    /\ ret.fn = "ssi_list"
    /\ ret.path = "good"
    /\ created # {}
    /\ created = Range(lists[Len(lists)].ids)
    /\ out.len >= 1

\* C18: ssi_man_new selects the memory backend exactly when db_path is null
\* and builds a new empty store on every call: ssi_list with a null db_path
\* returns 0 with length 0 and ssi_sign with a null db_path returns null,
\* also after an ssi_new with a null db_path succeeded.
C18_MemoryPerCall ==
    /\ \A path \in DbPaths :
        LET man == ssi_man_new(db, path) IN
        /\ path = "null" => (man.ok /\ man.val.backend = "memory" /\ man.val.store = <<>>)
        /\ (man.ok /\ man.val.backend = "memory") => path = "null"
    /\ (ret.fn = "ssi_list" /\ ret.path = "null") =>
        /\ ret.ok /\ ret.value = 0
        /\ out.len = 0
        /\ lists[Len(lists)].ids = <<>>
    /\ (ret.fn = "ssi_sign" /\ ret.path = "null") =>
        /\ ~ret.ok /\ ret.value = NULL
        /\ ret.err = "UnknownIdentity"

C18_Witness ==
    /\ ret.fn = "ssi_list"
    /\ ret.path = "null"
    /\ ret.value = 0
    /\ out.len = 0
    /\ db = <<>>
    /\ \E a \in 1..Len(heap) : heap[a].kind = "cstring" /\ heap[a].list = 0

\* C12: with another connection inserting and removing, the page count and
\* the page that one sqlite paginated_identities call returns are those of one
\* and the same table state, the one the count query saw.
C12_Snapshot ==
    txn.pc = "fetched" =>
        /\ txn.res = SqlPaginated(txSnap, txn.page, txn.per_page)
        /\ shared = txSnap

C12_Witness ==
    /\ txn.pc = "fetched"
    /\ txBusy
    /\ Len(txSnap) >= 2
    /\ Len(txn.res.val[1]) >= 1

RecordOf(st, i) == IF Stored(st, i) THEN get(backend, st, i).val ELSE None

\* C13: a successful new_ssi creates or replaces exactly the record keyed by
\* the name, with the descriptor whose text it returns and the secret
\* concealed under the password, and changes no other record; when the UID
\* does not parse or the insert fails it returns an error and the store is
\* as it was.
C13_NewSsi ==
    [][last'.op = "new_ssi" =>
        IF last'.res.ok
        THEN /\ last'.uid_ok
             /\ Stored(store', last'.id)
             /\ Count(SelectIds(store'), last'.id) = 1
             /\ SsiToString(RecordOf(store', last'.id)[1]) = last'.res.val
             /\ RecordOf(store', last'.id) = track'[last'.id]
             /\ \E k \in Keys, p \in Passwords :
                    /\ last'.res.val = SsiToString([pk |-> to_public(k)])
                    /\ RecordOf(store', last'.id)[2] = conceal(k, p)
             /\ \A j \in Ids \ {last'.id} : RecordOf(store', j) = RecordOf(store, j)
        ELSE /\ store' = store
             /\ last'.res.err.kind \in {"UidParse", "Diesel"}
             /\ ~last'.uid_ok => last'.res.err = UidParse]_vars

C13_Witness ==
    /\ last.op = "new_ssi"
    /\ last.res.ok
    /\ Len(store) >= 2
    /\ RecordOf(store, last.id)[2].pw = "pw"

\* C14: for a record that new_ssi stored under a password, sign with another
\* password returns no certificate but SecretReveal or
\* Signer(WrongPassword); sign with that password returns a certificate that
\* verifies against the message.
C14_WrongPassword ==
    (last.op = "sign" /\ track[last.id] # None) =>
        IF last.passwd = track[last.id][2].pw
        THEN /\ last.res.ok
             /\ ssi_cert_verify_text(last.res.val, last.msg).ok
        ELSE /\ ~last.res.ok
             /\ last.res.err \in {SecretReveal, Signer("WrongPassword")}

C14_Witness ==
    /\ last.op = "sign"
    /\ track[last.id] # None
    /\ track[last.id][2].pw = "pw"
    /\ last.passwd = DEFAULT_EMPTY_PASSWORD
    /\ last.res = Err(Signer("WrongPassword"))

\* C15: all_identities returns every identifier at most once, and the
\* identifiers it returns are those whose last successful mutating
\* operation was an insert.
C15_IdentifierSet ==
    LET all == all_identities(backend, store) IN
    /\ all.ok
    /\ \A i \in Ids : Count(all.val, i) <= 1
    /\ Range(all.val) = {i \in Ids : track[i] # None}
    /\ last.op = "all_identities" => last.res = all

C15_Witness ==
    /\ last.op = "all_identities"
    /\ Len(last.res.val) >= 1
    /\ \E i \in Ids : track[i] = None /\ ~Stored(store, i)
    /\ \E i \in Ids : track[i] # None /\ Stored(store, i)

\* C17: get, paginated_identities, all_identities and sign, successful or
\* not, leave the records of the store as they are; a record appears or
\* changes only in an insert of its identifier and disappears only in a
\* remove of it; what the store holds after sign are concealed secrets.
C17_ReadFrame ==
    [][/\ last'.op \in {"get", "paginated_identities", "all_identities", "sign"} => store' = store
       /\ \A i \in Ids :
            /\ (RecordOf(store', i) # RecordOf(store, i) /\ Stored(store', i)) =>
                    (last'.op = "insert" /\ last'.id = i /\ last'.res.ok)
            /\ (Stored(store, i) /\ ~Stored(store', i)) =>
                    (last'.op = "remove" /\ last'.id = i)
       /\ last'.op = "sign" =>
            \A i \in Ids : Stored(store', i) => RecordOf(store', i)[2] \in EncryptedSecrets]_vars

C17_Witness ==
    /\ last.op = "sign"
    /\ last.res.ok
    /\ Len(store) >= 2

C19_OffsetArithmetic ==
    last.op = "paginated_usize" =>
        /\ ~last.underflow
        /\ ~last.overflow
        /\ ~last.abort
        /\ last.res # None
====
